---- MODULE Spec2Model ----
(***************************************************************************)
(* Transfer-limited breadth-first path search of the YBS guide             *)
(* (performBFS) over the route table of the local database.                *)
(*                                                                         *)
(* A route is a record [id, stops]; the table db.busRoutes is keyed by id  *)
(* and toArray() returns it in key order, so the table is a sequence whose *)
(* i-th element has the i-th key.  Keys are written 1, 2, ... here.        *)
(***************************************************************************)
EXTENDS Integers, Sequences, FiniteSets, TLC

\* ------------------------------------------------------------------ bounds
MaxRoutes == 3
MaxRouteLen == 3
MaxTextTokens == 3
MaxSends == 2
MaxConcRoutes == 2

\* ------------------------------------------------------- program constants
MAX_TRANSFERS == 2
MaxResults == 5

\* ------------------------------------------------------------- input space
StopOrder == <<"X", "Y", "Z", "W">>

Range(s) == {s[i] : i \in DOMAIN s}

Stops == Range(StopOrder)

\* Stop lists of a route (BusRoute.stops): between two and MaxRouteLen
\* pairwise different stop names.  Every set of stops is a route in one
\* listing order, that of StopOrder; start and end range over all stops, so
\* a route is boarded at its first, a middle or its last stop.
StopLists ==
  {SelectSeq(StopOrder, LAMBDA x : x \in S) :
     S \in {T \in SUBSET Stops : Cardinality(T) \in 2..MaxRouteLen}}

\* Contents of the table busRoutes: at most MaxRoutes routes, keys unique.
RouteTables ==
  UNION {{[i \in 1..n |-> [id |-> i, stops |-> f[i]]] : f \in [1..n -> StopLists]}
         : n \in 0..MaxRoutes}

VARIABLES busRoutes, start, end, pc, allRoutes, queue, visitedStops,
          finalResults, returned

\* readFails: the read of the table busRoutes rejects (the store is
\* unavailable) instead of delivering the routes.
VARIABLES readFails

searchVars == <<busRoutes, start, end, pc, allRoutes, queue, visitedStops,
                finalResults, returned, readFails>>

\* One call of extractStopsFromText: its arguments, the candidates it has
\* accepted (foundStops after the sort by index) and its value.
VARIABLES text, allStopNames, foundStops, extracted, xpc

extractVars == <<text, allStopNames, foundStops, extracted, xpc>>

\* The assistant page: the entry field, the chat, the typing flag, the query
\* captured by the pending callback of handleSend and where that callback
\* stands ("idle", "timer": scheduled by setTimeout, "await": waiting for
\* performBFS).
VARIABLES input, messages, isTyping, userQuery, dpc

dialogVars == <<input, messages, isTyping, userQuery, dpc>>

\* The calls of performBFS that are under way together: for each call its
\* arguments, its locals, its position and the value it returned.
VARIABLES frames

concVars == <<frames>>

\* SettingsPage.updateData: where a call of it stands, the content of the
\* routes table when it was called and the routes it installs.
VARIABLES update

refreshVars == <<update>>

vars == <<searchVars, extractVars, dialogVars, concVars, refreshVars>>

\* ----------------------------------------------------------------- helpers
\* Array.prototype.includes
Includes(seq, x) == \E i \in DOMAIN seq : seq[i] = x

\* Every route is tried at every stop, whether it serves the stop or not.
AvailableRoutes_All(routes, currentStop) == routes

\* allRoutes.filter(r => r.stops.includes(currentStop))
AvailableRoutes(routes, currentStop) ==
  SelectSeq(routes, LAMBDA r : Includes(r.stops, currentStop))

\* A search that never skips a route already ridden in the path.
RouteUsed_Never(path, route) == FALSE

\* path.some(step => step.route.id === route.id)
RouteUsed(path, route) == \E i \in DOMAIN path : path[i].route.id = route.id

\* { route, fromStop, toStop }
PathStep(route, fromStop, toStop) ==
  [route |-> route, fromStop |-> fromStop, toStop |-> toStop]

\* A result whose transferCount counts the steps instead of the changes.
SearchResult_StepCount(finalPath) ==
  [steps |-> finalPath, transferCount |-> Len(finalPath)]

\* { steps: finalPath, transferCount: finalPath.length - 1 }
SearchResult(finalPath) ==
  [steps |-> finalPath, transferCount |-> Len(finalPath) - 1]

\* A search without the result cap.
CapReached_Never(results) == FALSE

\* finalResults.length >= 5
CapReached(results) == Len(results) >= MaxResults

\* route.stops.includes(currentStop) in the place of route.stops.includes(end):
\* every route through the current stop completes an itinerary.
ContainsEnd_Any(route, endStop) == TRUE

\* route.stops.includes(end)
ContainsEnd(route, endStop) == Includes(route.stops, endStop)

\* queue[0] in the place of queue.shift(): the entry stays on the queue.
Shift_Peek(q) == q

\* queue.shift(): the queue without its oldest entry
Shift(q) == Tail(q)

\* A path is extended whatever its length.
CanExpand_Always(path) == TRUE

\* path.length < MAX_TRANSFERS
CanExpand(path) == Len(path) < MAX_TRANSFERS

\* The loop is given up as soon as a path of MAX_TRANSFERS steps is dequeued.
TooLong_Early(path) == Len(path) > MAX_TRANSFERS - 1

\* path.length > MAX_TRANSFERS + 1
TooLong(path) == Len(path) > MAX_TRANSFERS + 1

\* The expansion with a visited set kept per path: a stop is skipped only
\* when the path itself has been there.
RECURSIVE ForStops_PerPath(_, _, _, _, _)
ForStops_PerPath(route, currentStop, path, k, st) ==
  IF k > Len(route.stops) THEN st
  ELSE LET nextStop == route.stops[k]
           onPath == nextStop = currentStop
                     \/ \E i \in DOMAIN path : path[i].fromStop = nextStop
       IN
       IF ~onPath
       THEN ForStops_PerPath(route, currentStop, path, k + 1,
              [st EXCEPT !.visitedStops = @ \cup {nextStop},
                         !.queue = Append(@, [currentStop |-> nextStop,
                                              path |-> Append(path,
                                                [route |-> route,
                                                 fromStop |-> currentStop,
                                                 toStop |-> nextStop])])])
       ELSE ForStops_PerPath(route, currentStop, path, k + 1, st)

\* for (const nextStop of route.stops) { if (!visitedStops.has(nextStop)) ... }
\* st = [queue, visitedStops, finalResults, brk]
RECURSIVE ForStops(_, _, _, _, _)
ForStops(route, currentStop, path, k, st) ==
  IF k > Len(route.stops) THEN st
  ELSE LET nextStop == route.stops[k] IN
       IF nextStop \notin st.visitedStops
       THEN ForStops(route, currentStop, path, k + 1,
              [st EXCEPT !.visitedStops = @ \cup {nextStop},
                         !.queue = Append(@, [currentStop |-> nextStop,
                                              path |-> Append(path,
                                                PathStep(route, currentStop, nextStop))])])
       ELSE ForStops(route, currentStop, path, k + 1, st)

\* The body of `for (const route of availableRoutes)` for one route.
\* brk is set by the `break` of line 79.
RouteBody(route, currentStop, path, endStop, st) ==
  IF RouteUsed(path, route) THEN st
  ELSE LET emit == ContainsEnd(route, endStop)
           st1  == IF emit
                   THEN [st EXCEPT !.finalResults =
                           Append(@, SearchResult(Append(path,
                                       PathStep(route, currentStop, endStop))))]
                   ELSE st
       IN IF emit /\ CapReached(st1.finalResults)
          THEN [st1 EXCEPT !.brk = TRUE]
          ELSE IF CanExpand(path)
               THEN ForStops(route, currentStop, path, 1, st1)
               ELSE st1

\* for (const route of availableRoutes) { ... }
RECURSIVE ForRoutes(_, _, _, _, _, _)
ForRoutes(routes, j, currentStop, path, endStop, st) ==
  IF j > Len(routes) \/ st.brk THEN st
  ELSE ForRoutes(routes, j + 1, currentStop, path, endStop,
                 RouteBody(routes[j], currentStop, path, endStop, st))

\* The comparator with its operands exchanged: a descending sort.
Compare_Desc(a, b) == b.transferCount - a.transferCount

\* (a, b) => a.transferCount - b.transferCount
Compare(a, b) == a.transferCount - b.transferCount

\* finalResults.sort(...): Array.prototype.sort is stable, an element is
\* placed after the elements that compare equal to it.
RECURSIVE InsertSorted(_, _)
InsertSorted(sorted, x) ==
  IF sorted = <<>> THEN <<x>>
  ELSE IF Compare(Head(sorted), x) <= 0
       THEN <<Head(sorted)>> \o InsertSorted(Tail(sorted), x)
       ELSE <<x>> \o sorted

RECURSIVE SortResults(_)
SortResults(results) ==
  IF results = <<>> THEN <<>>
  ELSE InsertSorted(SortResults(SubSeq(results, 1, Len(results) - 1)),
                    results[Len(results)])

\* =================================================== extractStopsFromText
\* A string is the sequence of its UTF-16 code units; a letter of the stop
\* names is written as itself, a code unit of a keyword as "Uxxxx".  Indexes
\* are those of the code (0-based); position i of the code is element i + 1.

\* const fromKeywords = [ two keywords of 3 and 2 code units ]  (line 134)
fromKeywords ==
  << <<"U1000", "U1014", "U1031">>, <<"U1019", "U103E">> >>

\* const toKeywords = [ three keywords of 3, 4 and 10 code units ]  (line 135)
toKeywords ==
  << <<"U1000", "U102D", "U102F">>,
     <<"U101E", "U102D", "U102F", "U1037">>,
     <<"U101E", "U103D", "U102C", "U1038", "U1001", "U103B", "U1004", "U103A",
       "U1010", "U102C">> >>

\* White space as String.prototype.trim sees it (the texts use the space).
IsSpace(c) == c = " "

\* text.trim()
RECURSIVE Trim(_)
Trim(t) ==
  IF t = <<>> THEN t
  ELSE IF IsSpace(Head(t)) THEN Trim(Tail(t))
  ELSE IF IsSpace(t[Len(t)]) THEN Trim(SubSeq(t, 1, Len(t) - 1))
  ELSE t

\* name occurs in t at index i
OccursAt(t, name, i) ==
  /\ i >= 0
  /\ i + Len(name) <= Len(t)
  /\ \A k \in 1..Len(name) : t[i + k] = name[k]

\* An includes that is always satisfied: the entry is taken for present.
StrIncludes_Always(t, name) == TRUE

\* t.includes(name)
StrIncludes(t, name) == \E i \in 0..Len(t) : OccursAt(t, name, i)

\* t.indexOf(name): the first index of an occurrence, -1 when there is none
IndexOf(t, name) ==
  IF \E i \in 0..Len(t) : OccursAt(t, name, i)
  THEN CHOOSE i \in 0..Len(t) :
         OccursAt(t, name, i) /\ \A j \in 0..(i - 1) : ~OccursAt(t, name, j)
  ELSE -1

Min(a, b) == IF a < b THEN a ELSE b
Max(a, b) == IF a > b THEN a ELSE b

\* t.substring(a, b): both arguments are clamped to 0..length and exchanged
\* when the first is the larger
Substring(t, a, b) ==
  LET ca == Min(Max(a, 0), Len(t))
      cb == Min(Max(b, 0), Len(t))
  IN SubSeq(t, Min(ca, cb) + 1, Max(ca, cb))

\* t.substring(a)
SubstringFrom(t, a) == Substring(t, a, Len(t))

\* The comparator of an ascending sort: the shortest names come first.
ByLength_Asc(a, b) == Len(a) - Len(b)

\* (a, b) => b.length - a.length
ByLength(a, b) == Len(b) - Len(a)

\* [...allStopNames].sort(...): stable, an entry is placed after the entries
\* that compare equal to it
RECURSIVE InsertName(_, _)
InsertName(sorted, x) ==
  IF sorted = <<>> THEN <<x>>
  ELSE IF ByLength(Head(sorted), x) <= 0
       THEN <<Head(sorted)>> \o InsertName(Tail(sorted), x)
       ELSE <<x>> \o sorted

RECURSIVE SortNames(_)
SortNames(names) ==
  IF names = <<>> THEN <<>>
  ELSE InsertName(SortNames(SubSeq(names, 1, Len(names) - 1)),
                  names[Len(names)])

\* The overlap test without its first alternative: only the end of the new
\* range is compared.
IsOverlapping_EndOnly(found, name, index) ==
  \E i \in DOMAIN found :
     index + Len(name) > found[i].index
       /\ index + Len(name) <= found[i].index + Len(found[i].name)

\* foundStops.some(s => (index >= s.index && index < s.index + s.name.length)
\*   || (index + name.length > s.index
\*       && index + name.length <= s.index + s.name.length))
IsOverlapping(found, name, index) ==
  \E i \in DOMAIN found :
     \/ index >= found[i].index /\ index < found[i].index + Len(found[i].name)
     \/ index + Len(name) > found[i].index
          /\ index + Len(name) <= found[i].index + Len(found[i].name)

\* sortedNames.forEach(name => { ... })
RECURSIVE MatchNames(_, _, _, _)
MatchNames(normalizedText, sortedNames, k, found) ==
  IF k > Len(sortedNames) THEN found
  ELSE LET name == sortedNames[k] IN
       IF StrIncludes(normalizedText, name)
       THEN LET index == IndexOf(normalizedText, name) IN
            IF ~IsOverlapping(found, name, index)
            THEN MatchNames(normalizedText, sortedNames, k + 1,
                            Append(found, [name |-> name, index |-> index]))
            ELSE MatchNames(normalizedText, sortedNames, k + 1, found)
       ELSE MatchNames(normalizedText, sortedNames, k + 1, found)

\* The candidates left in the order in which they were accepted.
SortByIndex_None(found) == found

\* foundStops.sort((a, b) => a.index - b.index)
RECURSIVE InsertFound(_, _)
InsertFound(sorted, x) ==
  IF sorted = <<>> THEN <<x>>
  ELSE IF Head(sorted).index - x.index <= 0
       THEN <<Head(sorted)>> \o InsertFound(Tail(sorted), x)
       ELSE <<x>> \o sorted

RECURSIVE SortByIndex(_)
SortByIndex(found) ==
  IF found = <<>> THEN <<>>
  ELSE InsertFound(SortByIndex(SubSeq(found, 1, Len(found) - 1)),
                   found[Len(found)])

\* foundStops as it stands at line 127
FoundStops(txt, names) ==
  SortByIndex(MatchNames(Trim(txt), SortNames(names), 1, <<>>))

\* keywords.some(k => t.includes(k))
HasKeyword(keywords, t) ==
  \E i \in DOMAIN keywords : StrIncludes(t, keywords[i])

\* The value of extractStopsFromText.  null is the record with isNull; a
\* slot is the set of its values: {} for null, {name} for a name.
NullResult == [isNull |-> TRUE, start |-> {}, end |-> {}]

Query(s, e) == [isNull |-> FALSE, start |-> s, end |-> e]

\* The two candidates exchanged when no origin marker stands between them.
AssignTwo_Swap(hasFromMarker, firstStop, secondStop) ==
  IF hasFromMarker
  THEN Query({firstStop.name}, {secondStop.name})
  ELSE Query({secondStop.name}, {firstStop.name})

\* if (hasFromMarker) { start = first; end = second } else { the same }
AssignTwo(hasFromMarker, firstStop, secondStop) ==
  IF hasFromMarker
  THEN Query({firstStop.name}, {secondStop.name})
  ELSE Query({firstStop.name}, {secondStop.name})

\* A single candidate that is always taken for the origin.
AssignOne_Start(isDestination, stop) == Query({stop.name}, {})

\* if (isDestination) end = name; else start = name
AssignOne(isDestination, stop) ==
  IF isDestination THEN Query({}, {stop.name}) ELSE Query({stop.name}, {})

\* A result with both slots null in the place of null.
NoneFound_Query == Query({}, {})

\* if (foundStops.length < 1) return null
NoneFound == NullResult

\* lines 128-161
AssignRoles(normalizedText, found) ==
  IF Len(found) < 1 THEN NoneFound
  ELSE IF Len(found) >= 2
  THEN LET firstStop == found[1]
           secondStop == found[2]
           textAfterFirst == Substring(normalizedText,
                                       firstStop.index + Len(firstStop.name),
                                       secondStop.index)
           hasFromMarker == HasKeyword(fromKeywords, textAfterFirst)
       IN AssignTwo(hasFromMarker, firstStop, secondStop)
  ELSE LET textAfter == SubstringFrom(normalizedText,
                                      found[1].index + Len(found[1].name))
           isDestination == HasKeyword(toKeywords, textAfter)
       IN AssignOne(isDestination, found[1])

\* extractStopsFromText(text, allStopNames)
ExtractStopsFromText(txt, names) ==
  AssignRoles(Trim(txt), FoundStops(txt, names))

\* ------------------------------------------------------------------ states
\* No call of extractStopsFromText is under way.
ExtractIdle ==
  /\ text = <<>>
  /\ allStopNames = <<>>
  /\ foundStops = <<>>
  /\ extracted = NullResult
  /\ xpc = "idle"

\* The assistant page is not open.
DialogIdle ==
  /\ input = <<>>
  /\ messages = <<>>
  /\ isTyping = FALSE
  /\ userQuery = <<>>
  /\ dpc = "closed"

\* No two calls of performBFS are under way together.
ConcIdle == frames = <<>>

\* The settings page is not open.
RefreshIdle == update = [pc |-> "closed", before |-> <<>>, after |-> <<>>]

\* No call of performBFS is under way.
SearchIdle ==
  /\ busRoutes = <<>>
  /\ start = <<>>
  /\ end = <<>>
  /\ pc = "idle"
  /\ allRoutes = <<>>
  /\ queue = <<>>
  /\ visitedStops = {}
  /\ finalResults = <<>>
  /\ returned = <<>>
  /\ readFails = FALSE

Init ==
  /\ busRoutes \in RouteTables
  /\ start \in Stops
  /\ end \in Stops
  /\ readFails \in BOOLEAN
  /\ pc = "load"
  /\ allRoutes = <<>>
  /\ queue = <<>>
  /\ visitedStops = {}
  /\ finalResults = <<>>
  /\ returned = <<>>
  /\ ExtractIdle
  /\ DialogIdle
  /\ ConcIdle
  /\ RefreshIdle

\* const allRoutes = await db.busRoutes.toArray(); and the declarations that
\* follow it up to the loop.
Load ==
  /\ pc = "load"
  /\ ~readFails
  /\ allRoutes' = busRoutes
  /\ queue' = <<[currentStop |-> start, path |-> <<>>]>>
  /\ visitedStops' = {start}
  /\ finalResults' = <<>>
  /\ pc' = "loop"
  /\ UNCHANGED <<busRoutes, start, end, returned, readFails>>
  /\ UNCHANGED <<extractVars, dialogVars, concVars, refreshVars>>

\* A catch around the read that answers with an empty list.
LoadFail_Swallow ==
  /\ pc = "load"
  /\ readFails
  /\ pc' = "done"
  /\ returned' = <<>>
  /\ UNCHANGED <<busRoutes, start, end, allRoutes, queue, visitedStops,
                 finalResults, readFails>>
  /\ UNCHANGED <<extractVars, dialogVars, concVars, refreshVars>>

\* await db.busRoutes.toArray() rejects: nothing catches it inside the
\* function, so the promise of performBFS rejects and the body is abandoned.
LoadFail ==
  /\ pc = "load"
  /\ readFails
  /\ pc' = "rejected"
  /\ UNCHANGED <<busRoutes, start, end, allRoutes, queue, visitedStops,
                 finalResults, returned, readFails>>
  /\ UNCHANGED <<extractVars, dialogVars, concVars, refreshVars>>

\* One iteration of `while (queue.length > 0)`.
Iterate ==
  /\ pc = "loop"
  /\ queue # <<>>
  /\ LET currentStop == Head(queue).currentStop
         path == Head(queue).path
     IN IF TooLong(path)
        THEN /\ queue' = Shift(queue)
             /\ pc' = "sort"
             /\ UNCHANGED <<visitedStops, finalResults>>
        ELSE LET st == ForRoutes(AvailableRoutes(allRoutes, currentStop), 1,
                                 currentStop, path, end,
                                 [queue |-> Shift(queue),
                                  visitedStops |-> visitedStops,
                                  finalResults |-> finalResults,
                                  brk |-> FALSE])
             IN /\ queue' = st.queue
                /\ visitedStops' = st.visitedStops
                /\ finalResults' = st.finalResults
                /\ pc' = IF CapReached(st.finalResults) THEN "sort" ELSE "loop"
  /\ UNCHANGED <<busRoutes, start, end, allRoutes, returned, readFails>>
  /\ UNCHANGED <<extractVars, dialogVars, concVars, refreshVars>>

\* The loop condition fails: the queue is empty.
ExitLoop ==
  /\ pc = "loop"
  /\ queue = <<>>
  /\ pc' = "sort"
  /\ UNCHANGED <<busRoutes, start, end, allRoutes, queue, visitedStops,
                 finalResults, returned, readFails>>
  /\ UNCHANGED <<extractVars, dialogVars, concVars, refreshVars>>

\* return finalResults.sort(...).  finalResults keeps the order of emission
\* in the model; the value handed to the caller is `returned`.
Return ==
  /\ pc = "sort"
  /\ returned' = SortResults(finalResults)
  /\ pc' = "done"
  /\ UNCHANGED <<busRoutes, start, end, allRoutes, queue, visitedStops,
                 finalResults, readFails>>
  /\ UNCHANGED <<extractVars, dialogVars, concVars, refreshVars>>

Next == Load \/ LoadFail \/ Iterate \/ ExitLoop \/ Return

Spec == Init /\ [][Next]_vars

\* ------------------------------------------ extractStopsFromText, applied
Flatten(tokens) ==
  LET RECURSIVE F(_)
      F(k) == IF k > Len(tokens) THEN <<>> ELSE tokens[k] \o F(k + 1)
  IN F(1)

\* What a text is made of: letters of stop names, the space and the keywords.
Tokens ==
  {<<"A">>, <<"B">>, <<"C">>, <<" ">>} \cup Range(fromKeywords) \cup Range(toKeywords)

Texts ==
  {Flatten(ts) : ts \in UNION {[1..n -> Tokens] : n \in 0..MaxTextTokens}}

Names == {<<"A">>, <<"B">>, <<"C">>, <<"A", "B">>}

\* The vocabulary is an array without repetitions (the assistant builds it
\* from a Set): every arrangement of every set of names.
Vocabularies ==
  UNION {{v \in [1..n -> Names] : Cardinality(Range(v)) = n}
         : n \in 0..Cardinality(Names)}

abc == <<"a", "b", "c">>
bcd == <<"b", "c", "d">>
Sule == <<"S", "u", "l", "e">>
Hledan == <<"H", "l", "e", "d", "a", "n">>

\* "Sule<from-marker> Hledan<to-marker>"
SuleHledanTexts ==
  {Sule \o f \o <<" ">> \o Hledan \o t :
     f \in Range(fromKeywords), t \in Range(toKeywords)}

\* The inputs of the scenarios that lie outside Texts \X Vocabularies.
ScenarioInputs ==
  {[text |-> <<"a", "b", "c", "d">>, names |-> v] : v \in {<<abc, bcd>>, <<bcd, abc>>}}
  \cup {[text |-> t, names |-> v] :
          t \in SuleHledanTexts,
          v \in {<<Sule, Hledan>>, <<Hledan, Sule>>, <<Hledan, <<"l", "e">>, Sule>>}}

ExtractInputs ==
  {[text |-> t, names |-> v] : t \in Texts, v \in Vocabularies} \cup ScenarioInputs

ExtractInit ==
  /\ \E in \in ExtractInputs : text = in.text /\ allStopNames = in.names
  /\ foundStops = <<>>
  /\ extracted = NullResult
  /\ xpc = "call"
  /\ SearchIdle
  /\ DialogIdle
  /\ ConcIdle
  /\ RefreshIdle

\* The call: the function is synchronous and runs from line 103 to its return.
Extract ==
  /\ xpc = "call"
  /\ foundStops' = FoundStops(text, allStopNames)
  /\ extracted' = ExtractStopsFromText(text, allStopNames)
  /\ xpc' = "returned"
  /\ UNCHANGED <<text, allStopNames>>
  /\ UNCHANGED <<searchVars, dialogVars, concVars, refreshVars>>

ExtractNext == Extract

ExtractSpec == ExtractInit /\ [][ExtractNext]_vars

\* ------------------------------------------------------------ vocabulary
Done == pc = "done"

\* Stops at which an itinerary changes route: toStop of every non-final step.
TransferStops(result) ==
  {result.steps[i].toStop : i \in 1..(Len(result.steps) - 1)}

\* The network of the scenarios: routes 1 = [X, Y] and 2 = [Y, Z].
Route1 == [id |-> 1, stops |-> <<"X", "Y">>]
Route2 == [id |-> 2, stops |-> <<"Y", "Z">>]
Net12 == <<Route1, Route2>>

RoutesThrough(s) == {i \in DOMAIN busRoutes : Includes(busRoutes[i].stops, s)}

Share(i, j) == Range(busRoutes[i].stops) \cap Range(busRoutes[j].stops) # {}

\* Some chain of at most three routes leads from start to end.
ReachableWithin3 ==
  \E i \in RoutesThrough(start) : \E j \in RoutesThrough(end) :
     \/ i = j
     \/ Share(i, j)
     \/ \E m \in DOMAIN busRoutes : Share(i, m) /\ Share(m, j)

NoRouteLoops ==
  \A i \in DOMAIN busRoutes :
     Cardinality(Range(busRoutes[i].stops)) = Len(busRoutes[i].stops)

\* ------------------------------------------------------------------ claims

\* C1: no returned itinerary contains two steps whose route has the same id.
C1_NoRouteTwice ==
  Done => \A k \in DOMAIN returned :
            \A i, j \in DOMAIN returned[k].steps :
               i # j => returned[k].steps[i].route.id # returned[k].steps[j].route.id

C1_Witness ==
  Done /\ \E k \in DOMAIN returned : Len(returned[k].steps) = 3

C3_XtoY_OneResult ==
  (Done /\ busRoutes = Net12 /\ start = "X" /\ end = "Y")
    => returned = <<[steps |-> <<[route |-> Route1, fromStop |-> "X", toStop |-> "Y"]>>,
                    transferCount |-> 0]>>

\* C4: on routes 1 = [X, Y], 2 = [Y, Z] the search from X to Z returns exactly
\* one result, steps [(1, X, Y), (2, Y, Z)], transferCount 1.
C4_XtoZ_OneResult ==
  (Done /\ busRoutes = Net12 /\ start = "X" /\ end = "Z")
    => returned = <<[steps |-> <<[route |-> Route1, fromStop |-> "X", toStop |-> "Y"],
                                 [route |-> Route2, fromStop |-> "Y", toStop |-> "Z"]>>,
                    transferCount |-> 1]>>

C4_Witness ==
  Done /\ busRoutes = Net12 /\ start = "X" /\ end = "Z" /\ Len(returned) = 1

\* C5 (as claimed): when start equals end and no route lists a stop twice,
\* the search returns an empty list.
C5_SameStopNoResult ==
  (Done /\ start = end /\ NoRouteLoops) => returned = <<>>

\* C6 (as claimed): the transfer stops of any two different returned
\* itineraries are disjoint.
C6_TransferStopsDisjoint ==
  Done => \A a, b \in DOMAIN returned :
            a # b => TransferStops(returned[a]) \cap TransferStops(returned[b]) = {}

\* C6 (amended): a stop is reached by one partial path only, so whenever two
\* returned itineraries transfer at the same stop they do so at the same
\* position and their steps up to that transfer are identical.
C6_SharedTransferSamePrefix ==
  Done => \A a, b \in DOMAIN returned :
            \A i \in 1..(Len(returned[a].steps) - 1) :
              \A j \in 1..(Len(returned[b].steps) - 1) :
                 returned[a].steps[i].toStop = returned[b].steps[j].toStop
                   => /\ i = j
                      /\ SubSeq(returned[a].steps, 1, i) = SubSeq(returned[b].steps, 1, j)

C6_Witness ==
  Done /\ \E a, b \in DOMAIN returned :
            /\ a # b
            /\ TransferStops(returned[a]) \cap TransferStops(returned[b]) # {}

\* C7: the returned list is non-decreasing in transferCount and itineraries
\* of equal transferCount keep the order in which they were emitted.

C7_SortedStable ==
  Done => /\ \A i, j \in DOMAIN returned :
               i < j => returned[i].transferCount <= returned[j].transferCount
          /\ Len(returned) = Len(finalResults)
          /\ \A t \in 0..(MAX_TRANSFERS + 1) :
               SelectSeq(returned, LAMBDA r : r.transferCount = t)
                 = SelectSeq(finalResults, LAMBDA r : r.transferCount = t)

C7_Witness ==
  Done /\ \E i, j, k \in DOMAIN returned :
            /\ i < j /\ j < k
            /\ returned[i].transferCount = returned[j].transferCount
            /\ returned[j].transferCount < returned[k].transferCount

\* C8: every returned itinerary has at least one step and its transferCount
\* is its number of steps minus one.
C8_TransferCount ==
  Done => \A k \in DOMAIN returned :
            /\ Len(returned[k].steps) >= 1
            /\ returned[k].transferCount = Len(returned[k].steps) - 1
            /\ returned[k].transferCount >= 0

C8_Witness ==
  Done /\ \E k \in DOMAIN returned : returned[k].transferCount = 2

\* C9: when no chain of at most three routes leads from start to end, the
\* search ends with an empty list.
C9_UnreachableEmpty ==
  (Done /\ ~ReachableWithin3) => returned = <<>>

C9_Witness ==
  /\ Done /\ ~ReachableWithin3 /\ returned = <<>>
  /\ RoutesThrough(start) # {} /\ RoutesThrough(end) # {}

\* C10: once the route snapshot has been read, the loop ends and a list is
\* returned.  Every step of the search lowers a natural-valued measure (while
\* the loop runs: unvisited stops plus queued paths), the measure is 0 only
\* when the list has been returned, and the loop and the return are never
\* blocked (the queue is empty or it is not), so only finitely many steps
\* precede the return.
Rank ==
  CASE pc = "load" -> Cardinality(Stops) + 4
    [] pc = "loop" -> 2 + Cardinality(Stops \ visitedStops) + Len(queue)
    [] pc = "sort" -> 1
    [] OTHER -> 0

Searching == pc \in {"loop", "sort"}

RankFalls ==
  Searching => /\ Rank' < Rank
               /\ Rank' >= 0
               /\ (Rank' = 0) = (pc' = "done")

C10_Terminates == [][RankFalls]_vars

C10_Witness ==
  Done /\ visitedStops = Stops /\ Len(returned) < MaxResults

\* C11: when the read of the routes fails, the search ends rejected: it
\* never returns a list (so never the empty list), it reads no routes, and
\* it takes no further step (it does not read again).
Rejected == pc = "rejected"

FailureStays ==
  /\ readFails => (pc' \in {"load", "rejected"} /\ returned' = <<>> /\ allRoutes' = <<>>)
  /\ (readFails /\ pc = "load") => Rejected'
  /\ ~Rejected
  /\ Rejected' => readFails

C11_ReadFailureRejects == [][FailureStays]_vars

C11_Witness == Rejected /\ readFails /\ busRoutes # <<>>

\* ============================================= AssistantPage.handleSend
\* A chat message.  reply names the sentence of an assistant message; the
\* sentences carry the slots they quote.
UserMessage(content) == [role |-> "user", content |-> content]

AssistantMessage(reply, x, results) ==
  [role |-> "assistant", reply |-> reply, start |-> x.start, end |-> x.end,
   results |-> results]

\* useState([{ role: 'assistant', content: <greeting> }])
Greeting == AssistantMessage("greeting", NullResult, <<>>)

\* What the user types: one stop, one stop with a destination marker, two
\* stops, a stop that is not in the vocabulary, and blanks.
DialogTexts ==
  {<<"A">>,
   <<"B">>,
   <<"A">> \o toKeywords[1],
   <<"A">> \o fromKeywords[2] \o <<"B">>,
   <<"B", "A">>,
   <<"C">>,
   <<" ">>}

DialogNames == << <<"A">>, <<"B">> >>

DialogTables == {<<>>, <<[id |-> 1, stops |-> DialogNames]>>}

DialogInit ==
  /\ input = <<>>
  /\ messages = <<Greeting>>
  /\ isTyping = FALSE
  /\ userQuery = <<>>
  /\ dpc = "idle"
  /\ text = <<>>
  /\ allStopNames = DialogNames
  /\ foundStops = <<>>
  /\ extracted = NullResult
  /\ xpc = "idle"
  /\ busRoutes \in DialogTables
  /\ start = <<>>
  /\ end = <<>>
  /\ pc = "idle"
  /\ allRoutes = <<>>
  /\ queue = <<>>
  /\ visitedStops = {}
  /\ finalResults = <<>>
  /\ returned = <<>>
  /\ readFails = FALSE
  /\ ConcIdle
  /\ RefreshIdle

UserMessages == SelectSeq(messages, LAMBDA m : m.role = "user")

\* onChange={(e) => setInput(e.target.value)}
TypeInput ==
  /\ dpc # "closed"
  /\ Len(UserMessages) < MaxSends
  /\ \E t \in DialogTexts : input' = t
  /\ input' # input
  /\ UNCHANGED <<messages, isTyping, userQuery, dpc>>
  /\ UNCHANGED <<searchVars, extractVars, concVars, refreshVars>>

\* handleSend up to setTimeout; `if (!userQuery || isTyping) return` leaves
\* everything as it is.
HandleSend ==
  /\ dpc # "closed"
  /\ Len(UserMessages) < MaxSends
  /\ Trim(input) # <<>>
  /\ ~isTyping
  /\ userQuery' = Trim(input)
  /\ input' = <<>>
  /\ messages' = Append(messages, UserMessage(Trim(input)))
  /\ isTyping' = TRUE
  /\ dpc' = "timer"
  /\ UNCHANGED <<searchVars, extractVars, concVars, refreshVars>>

\* A controller that searches as soon as the origin is known.
Decide_StartSearches(x) ==
  IF x.isNull \/ (x.start = {} /\ x.end = {}) THEN "notFound"
  ELSE IF x.start # {} THEN "search"
  ELSE "askOrigin"

\* The chain of if / else if of lines 887-893.
Decide(x) ==
  IF x.isNull \/ (x.start = {} /\ x.end = {}) THEN "notFound"
  ELSE IF x.start # {} /\ x.end = {} THEN "askDestination"
  ELSE IF x.start = {} /\ x.end # {} THEN "askOrigin"
  ELSE "search"

\* The value of a slot handed on as a string: null where the slot is unset.
SlotValue(slot) == IF slot = {} THEN <<>> ELSE CHOOSE n \in slot : TRUE

\* The callback of setTimeout, from the extraction to its end or to the
\* await of performBFS.
TimerFires ==
  /\ dpc = "timer"
  /\ LET x == ExtractStopsFromText(userQuery, allStopNames) IN
       /\ text' = userQuery
       /\ foundStops' = FoundStops(userQuery, allStopNames)
       /\ extracted' = x
       /\ xpc' = "returned"
       /\ UNCHANGED <<allStopNames, concVars, refreshVars>>
       /\ IF Decide(x) = "search"
          THEN /\ start' = SlotValue(x.start)
               /\ end' = SlotValue(x.end)
               /\ pc' = "load"
               /\ readFails' \in BOOLEAN
               /\ returned' = <<>>
               /\ dpc' = "await"
               /\ UNCHANGED <<busRoutes, allRoutes, queue, visitedStops,
                              finalResults>>
               /\ UNCHANGED <<input, messages, isTyping, userQuery>>
          ELSE /\ messages' = Append(messages, AssistantMessage(Decide(x), x, <<>>))
               /\ isTyping' = FALSE
               /\ dpc' = "idle"
               /\ UNCHANGED <<input, userQuery>>
               /\ UNCHANGED searchVars

\* performBFS has resolved: lines 895-903.
Resume ==
  /\ dpc = "await"
  /\ pc = "done"
  /\ messages' = Append(messages,
                   AssistantMessage(IF Len(returned) > 0 THEN "found" ELSE "noRoute",
                                    extracted, returned))
  /\ isTyping' = FALSE
  /\ dpc' = "idle"
  /\ pc' = "idle"
  /\ UNCHANGED <<input, userQuery>>
  /\ UNCHANGED <<busRoutes, start, end, allRoutes, queue, visitedStops,
                 finalResults, returned, readFails>>
  /\ UNCHANGED <<extractVars, concVars, refreshVars>>

DialogNext ==
  \/ TypeInput \/ HandleSend \/ TimerFires \/ Resume
  \/ Load \/ LoadFail \/ Iterate \/ ExitLoop \/ Return

DialogSpec == DialogInit /\ [][DialogNext]_vars

\* ===================================== performBFS, two calls under way
Calls == {1, 2}

\* The tables the two calls read: at most MaxConcRoutes routes over three of
\* the stops.
ConcStops == {"X", "Y", "Z"}

ConcTables ==
  {t \in RouteTables :
     /\ Len(t) <= MaxConcRoutes
     /\ \A i \in DOMAIN t : Range(t[i].stops) \subseteq ConcStops}

\* A call that has evaluated db.busRoutes.toArray() and waits for it.
Awaiting(s, e) ==
  [start |-> s, end |-> e, pc |-> "load", allRoutes |-> <<>>, queue |-> <<>>,
   visitedStops |-> {}, finalResults |-> <<>>, returned |-> <<>>]

\* Both calls have been made and both wait for their read of the same table.
ConcInit ==
  /\ busRoutes \in ConcTables
  /\ \E s1 \in ConcStops, e1 \in ConcStops, s2 \in ConcStops, e2 \in ConcStops :
       frames = <<Awaiting(s1, e1), Awaiting(s2, e2)>>
  /\ start = <<>>
  /\ end = <<>>
  /\ pc = "idle"
  /\ allRoutes = <<>>
  /\ queue = <<>>
  /\ visitedStops = {}
  /\ finalResults = <<>>
  /\ returned = <<>>
  /\ readFails = FALSE
  /\ ExtractIdle
  /\ DialogIdle
  /\ RefreshIdle

\* JavaScript runs the code between two awaits to its end: a call is resumed
\* or continued only while no other call is between its await and its return.
MayRun(c) == \A d \in Calls \ {c} : frames[d].pc \notin {"loop", "sort"}

\* One visited set that every call reads and writes.
Visited_Shared(c) == UNION {frames[d].visitedStops : d \in Calls}

\* visitedStops of call c: the Set made at line 67 of that call.
Visited(c) == frames[c].visitedStops

\* The read of call c resolves; lines 65-69 of that call.
CallLoad(c) ==
  /\ frames[c].pc = "load"
  /\ MayRun(c)
  /\ frames' = [frames EXCEPT
       ![c].allRoutes = busRoutes,
       ![c].queue = <<[currentStop |-> frames[c].start, path |-> <<>>]>>,
       ![c].visitedStops = {frames[c].start},
       ![c].finalResults = <<>>,
       ![c].pc = "loop"]
  /\ UNCHANGED <<searchVars, extractVars, dialogVars, refreshVars>>

\* One iteration of the loop of call c.
CallIterate(c) ==
  /\ frames[c].pc = "loop"
  /\ MayRun(c)
  /\ frames[c].queue # <<>>
  /\ LET f == frames[c]
         currentStop == Head(f.queue).currentStop
         path == Head(f.queue).path
     IN IF TooLong(path)
        THEN frames' = [frames EXCEPT ![c].queue = Shift(f.queue),
                                      ![c].pc = "sort"]
        ELSE LET st == ForRoutes(AvailableRoutes(f.allRoutes, currentStop), 1,
                                 currentStop, path, f.end,
                                 [queue |-> Shift(f.queue),
                                  visitedStops |-> Visited(c),
                                  finalResults |-> f.finalResults,
                                  brk |-> FALSE])
             IN frames' = [frames EXCEPT
                  ![c].queue = st.queue,
                  ![c].visitedStops = st.visitedStops,
                  ![c].finalResults = st.finalResults,
                  ![c].pc = IF CapReached(st.finalResults) THEN "sort" ELSE "loop"]
  /\ UNCHANGED <<searchVars, extractVars, dialogVars, refreshVars>>

\* The queue of call c is empty.
CallExitLoop(c) ==
  /\ frames[c].pc = "loop"
  /\ MayRun(c)
  /\ frames[c].queue = <<>>
  /\ frames' = [frames EXCEPT ![c].pc = "sort"]
  /\ UNCHANGED <<searchVars, extractVars, dialogVars, refreshVars>>

\* Call c returns its sorted list.
CallReturn(c) ==
  /\ frames[c].pc = "sort"
  /\ MayRun(c)
  /\ frames' = [frames EXCEPT ![c].returned = SortResults(frames[c].finalResults),
                              ![c].pc = "done"]
  /\ UNCHANGED <<searchVars, extractVars, dialogVars, refreshVars>>

ConcNext ==
  \E c \in Calls : CallLoad(c) \/ CallIterate(c) \/ CallExitLoop(c) \/ CallReturn(c)

ConcSpec == ConcInit /\ [][ConcNext]_vars

\* The loop of lines 71-97 run from st to its end by one call on its own.
RECURSIVE RunLoop(_, _, _)
RunLoop(routes, e, st) ==
  IF st.queue = <<>> THEN st.finalResults
  ELSE LET currentStop == Head(st.queue).currentStop
           path == Head(st.queue).path
       IN IF TooLong(path) THEN st.finalResults
          ELSE LET n == ForRoutes(AvailableRoutes(routes, currentStop), 1,
                                  currentStop, path, e,
                                  [queue |-> Shift(st.queue),
                                   visitedStops |-> st.visitedStops,
                                   finalResults |-> st.finalResults,
                                   brk |-> FALSE])
               IN IF CapReached(n.finalResults) THEN n.finalResults
                  ELSE RunLoop(routes, e, n)

\* performBFS(s, e) over the table routes, run alone.
PerformBFS(routes, s, e) ==
  SortResults(RunLoop(routes, e,
                      [queue |-> <<[currentStop |-> s, path |-> <<>>]>>,
                       visitedStops |-> {s},
                       finalResults |-> <<>>,
                       brk |-> FALSE]))

\* ================================= performBFS during SettingsPage.updateData
\* The contents of the routes table before the refresh and the routes the
\* refresh installs: at most one route over three of the stops.
RefreshTables == {t \in ConcTables : Len(t) <= 1}

\* A call of performBFS waits for its read while the settings page stands
\* ready to refresh the data.
RefreshInit ==
  /\ busRoutes \in RefreshTables
  /\ \E t \in RefreshTables \ {<<>>} :
       update = [pc |-> "idle", before |-> busRoutes, after |-> t]
  /\ start \in ConcStops
  /\ end \in ConcStops
  /\ pc = "load"
  /\ allRoutes = <<>>
  /\ queue = <<>>
  /\ visitedStops = {}
  /\ finalResults = <<>>
  /\ returned = <<>>
  /\ readFails = FALSE
  /\ ExtractIdle
  /\ DialogIdle
  /\ ConcIdle

\* updateData is called: setStatus('updating') and the first request.
UpdateData ==
  /\ update.pc = "idle"
  /\ update' = [update EXCEPT !.pc = "clearStops"]
  /\ UNCHANGED <<searchVars, extractVars, dialogVars, concVars>>

\* await db.busStops.clear()
ClearStops ==
  /\ update.pc = "clearStops"
  /\ update' = [update EXCEPT !.pc = "clearRoutes"]
  /\ UNCHANGED <<searchVars, extractVars, dialogVars, concVars>>

\* await db.busRoutes.clear()
ClearRoutes ==
  /\ update.pc = "clearRoutes"
  /\ busRoutes' = <<>>
  /\ update' = [update EXCEPT !.pc = "addStops"]
  /\ UNCHANGED <<start, end, pc, allRoutes, queue, visitedStops, finalResults,
                 returned, readFails>>
  /\ UNCHANGED <<extractVars, dialogVars, concVars>>

\* await db.busStops.bulkAdd(INITIAL_STOPS)
AddStops ==
  /\ update.pc = "addStops"
  /\ update' = [update EXCEPT !.pc = "addRoutes"]
  /\ UNCHANGED <<searchVars, extractVars, dialogVars, concVars>>

\* await db.busRoutes.bulkAdd(INITIAL_ROUTES); setStatus('done')
AddRoutes ==
  /\ update.pc = "addRoutes"
  /\ busRoutes' = busRoutes \o update.after
  /\ update' = [update EXCEPT !.pc = "done"]
  /\ UNCHANGED <<start, end, pc, allRoutes, queue, visitedStops, finalResults,
                 returned, readFails>>
  /\ UNCHANGED <<extractVars, dialogVars, concVars>>

RefreshNext ==
  \/ UpdateData \/ ClearStops \/ ClearRoutes \/ AddStops \/ AddRoutes
  \/ Load \/ Iterate \/ ExitLoop \/ Return

RefreshSpec == RefreshInit /\ [][RefreshNext]_vars

\* ------------------------------------------------- extractor: vocabulary
XDone == xpc = "returned"

Accepted == {foundStops[i].name : i \in DOMAIN foundStops}

\* piece is a literal substring of whole
Within(piece, whole) ==
  \E i \in 1..(Len(whole) + 1) :
     /\ i + Len(piece) - 1 <= Len(whole)
     /\ SubSeq(whole, i, i + Len(piece) - 1) = piece

\* The index (0-based) of the first occurrence of piece in the trimmed text.
FirstAt(piece) ==
  CHOOSE i \in 0..Len(Trim(text)) :
    /\ SubSeq(Trim(text), i + 1, i + Len(piece)) = piece
    /\ \A j \in 0..(i - 1) : SubSeq(Trim(text), j + 1, j + Len(piece)) # piece

\* The accepted candidate with the k-th smallest index.
KthCandidate(k) ==
  CHOOSE f \in Range(foundStops) :
    Cardinality({g \in Range(foundStops) : g.index < f.index}) = k - 1

\* C12: longest match wins.  With vocabulary {"A", "AB"} and text "AB" only
\* "AB" is accepted; and a vocabulary entry whose first occurrence lies inside
\* the range of an accepted longer entry is not accepted.
C12_LongestMatchWins ==
  XDone =>
    /\ (text = <<"A", "B">> /\ Range(allStopNames) = {<<"A">>, <<"A", "B">>})
         => Accepted = {<<"A", "B">>}
    /\ \A n \in Range(allStopNames) : \A f \in Range(foundStops) :
         (/\ Len(f.name) > Len(n)
          /\ Within(n, Trim(text))
          /\ FirstAt(n) >= f.index
          /\ FirstAt(n) < f.index + Len(f.name))
           => n \notin Accepted

C12_Witness ==
  /\ XDone
  /\ text = <<"A", "B">>
  /\ allStopNames = << <<"A">>, <<"A", "B">> >>
  /\ Accepted = {<<"A", "B">>}

MarkerBetween ==
  LET a == KthCandidate(1)
      b == KthCandidate(2)
      between == SubSeq(Trim(text), a.index + Len(a.name) + 1, b.index)
  IN \E i \in DOMAIN fromKeywords : Within(fromKeywords[i], between)

\* C14: with two or more accepted candidates the leftmost is start and the
\* second-leftmost is end, with or without an origin marker between them and
\* whatever further candidates there are.
C14_TwoCandidates ==
  (XDone /\ Cardinality(Range(foundStops)) >= 2)
    => /\ ~extracted.isNull
       /\ extracted.start = {KthCandidate(1).name}
       /\ extracted.end = {KthCandidate(2).name}

C14_Witness ==
  /\ XDone
  /\ Cardinality(Range(foundStops)) >= 3
  /\ ~MarkerBetween
  /\ extracted.start = {KthCandidate(1).name}

\* The text after the match of the only candidate holds a destination marker.
MarkerAfter ==
  LET f == KthCandidate(1)
      after == SubSeq(Trim(text), f.index + Len(f.name) + 1, Len(Trim(text)))
  IN \E i \in DOMAIN toKeywords : Within(toKeywords[i], after)

\* C15: a single accepted candidate is end (start unset) when the text after
\* its match holds a destination marker, and start (end unset) otherwise.
C15_OneCandidate ==
  (XDone /\ Cardinality(Range(foundStops)) = 1)
    => /\ ~extracted.isNull
       /\ MarkerAfter
            => (extracted.start = {} /\ extracted.end = {KthCandidate(1).name})
       /\ ~MarkerAfter
            => (extracted.start = {KthCandidate(1).name} /\ extracted.end = {})

C15_Witness ==
  /\ XDone /\ Cardinality(Range(foundStops)) = 1 /\ MarkerAfter
  /\ extracted.start = {} /\ extracted.end # {}

\* C16: with "Sule" and "Hledan" in the vocabulary and the text
\* "Sule<from-marker> Hledan<to-marker>" the result is start = "Sule",
\* end = "Hledan".
C16_SuleHledan ==
  (XDone /\ text \in SuleHledanTexts /\ {Sule, Hledan} \subseteq Range(allStopNames))
    => /\ ~extracted.isNull
       /\ extracted.start = {Sule}
       /\ extracted.end = {Hledan}

C16_Witness ==
  /\ XDone /\ text \in SuleHledanTexts /\ allStopNames = <<Sule, Hledan>>
  /\ extracted.start = {Sule}

NoEntryOccurs == \A i \in DOMAIN allStopNames : ~Within(allStopNames[i], Trim(text))

\* C17 (as claimed): when no vocabulary entry occurs in the text the result
\* is a query value whose two slots are unset.
C17_NoneFoundEmptyQuery ==
  (XDone /\ NoEntryOccurs)
    => (~extracted.isNull /\ extracted.start = {} /\ extracted.end = {})

\* C17 (amended): when no vocabulary entry occurs in the text the function
\* returns null: there is no query value and no slot.
C17_NoneFoundNull ==
  (XDone /\ NoEntryOccurs) => (extracted.isNull /\ foundStops = <<>>)

C17_Witness ==
  XDone /\ NoEntryOccurs /\ allStopNames # <<>> /\ Trim(text) # <<>> /\ extracted.isNull

\* C18: each slot of a result is unset or is one vocabulary entry that
\* occurs literally in the text.
SlotOk(slot) ==
  /\ Cardinality(slot) <= 1
  /\ \A n \in slot : n \in Range(allStopNames) /\ Within(n, text)

C18_SlotsFromVocabulary ==
  (XDone /\ ~extracted.isNull) => (SlotOk(extracted.start) /\ SlotOk(extracted.end))

C18_Witness ==
  XDone /\ ~extracted.isNull /\ extracted.start # {} /\ extracted.end # {}

\* ---------------------------------------------------------------- dialogue
\* The callback of the pending message runs in this step.
CallbackRuns == dpc = "timer" /\ dpc' # "timer"

\* performBFS is called in this step.
SearchInvoked == pc # "load" /\ pc' = "load"

LastMessage == messages[Len(messages)]

\* C19: the callback of a message calls the path search exactly when the
\* extraction of that message has both slots; with neither slot it answers
\* not-found, with start only it asks for the destination, with end only for
\* the origin; nothing but the extraction of the message being handled
\* decides, and the search is called nowhere else.
DecidesOnCurrentMessage ==
  /\ SearchInvoked => CallbackRuns
  /\ CallbackRuns =>
       LET x == extracted'
           hasStart == ~x.isNull /\ x.start # {}
           hasEnd == ~x.isNull /\ x.end # {}
       IN /\ text' = userQuery
          /\ userQuery = UserMessages[Len(UserMessages)].content
          /\ SearchInvoked <=> (hasStart /\ hasEnd)
          /\ (hasStart /\ hasEnd)
               => (start' \in x.start /\ end' \in x.end /\ messages' = messages)
          /\ ~(hasStart /\ hasEnd)
               => /\ messages' = Append(messages, LastMessage')
                  /\ LastMessage'.role = "assistant"
                  /\ LastMessage'.reply =
                       (IF hasStart THEN "askDestination"
                        ELSE IF hasEnd THEN "askOrigin" ELSE "notFound")

C19_SearchIffBothSlots == [][DecidesOnCurrentMessage]_vars

\* A first message gave a start only, and the second, which names one stop
\* again, has been answered without a search.
C19_Witness ==
  /\ Len(messages) = 5
  /\ messages[3].reply = "askDestination"
  /\ messages[5].reply = "askDestination"
  /\ messages[3].start # messages[5].start
  /\ pc = "idle"

\* ------------------------------------------------------ calls under way
CallDone(c) == frames # <<>> /\ frames[c].pc = "done"

\* C20: of two calls that wait for their read of the same table together
\* and are resumed in either order, each returns the list that
\* performBFS returns for its arguments when it runs alone.
C20_InterleavedAsAlone ==
  \A c \in Calls :
    CallDone(c) =>
      frames[c].returned = PerformBFS(busRoutes, frames[c].start, frames[c].end)

\* Both calls have returned, for different arguments; call 2 was given a
\* journey with a transfer at a stop that call 1 visited.
C20_Witness ==
  /\ CallDone(1)
  /\ CallDone(2)
  /\ <<frames[1].start, frames[1].end>> # <<frames[2].start, frames[2].end>>
  /\ frames[1].returned # <<>>
  /\ \E i \in DOMAIN frames[2].returned :
       /\ frames[2].returned[i].transferCount >= 1
       /\ frames[2].returned[i].steps[1].toStop \in frames[1].visitedStops

\* ------------------------------------------------- search: further claims
\* C21: every returned itinerary is a connected chain from start to end:
\* its first step leaves from start, every later step leaves from the stop
\* where the step before it arrived, its last step arrives at end, and both
\* stops of every step are on the route of that step.
IsChain(steps) ==
  /\ steps # <<>>
  /\ steps[1].fromStop = start
  /\ steps[Len(steps)].toStop = end
  /\ \A i \in 2..Len(steps) : steps[i].fromStop = steps[i - 1].toStop
  /\ \A i \in DOMAIN steps :
       /\ Includes(steps[i].route.stops, steps[i].fromStop)
       /\ Includes(steps[i].route.stops, steps[i].toStop)

C21_ConnectedChain ==
  Done => \A k \in DOMAIN returned : IsChain(returned[k].steps)

C21_Witness ==
  Done /\ start # end
       /\ \E k \in DOMAIN returned :
            /\ Len(returned[k].steps) = 2
            /\ returned[k].steps[1].toStop \notin {start, end}

\* The least number of routes in a chain from start to end, where there is
\* one of at most three.
Direct == RoutesThrough(start) \cap RoutesThrough(end) # {}

OneChange ==
  \E i \in RoutesThrough(start) : \E j \in RoutesThrough(end) : Share(i, j)

MinRoutes == IF Direct THEN 1 ELSE IF OneChange THEN 2 ELSE 3

\* C22: when a chain of at most three different routes leads from start to
\* end, the returned list is not empty and its first itinerary rides the
\* least possible number of routes; a route through both start and end gives
\* a first itinerary with transferCount 0.
C22_FirstIsShortest ==
  (Done /\ ReachableWithin3)
    => /\ returned # <<>>
       /\ Len(returned[1].steps) = MinRoutes
       /\ Direct => returned[1].transferCount = 0

C22_Witness ==
  /\ Done /\ ReachableWithin3 /\ MinRoutes = 3
  /\ returned # <<>> /\ Len(returned[1].steps) = 3

\* C23 (as claimed): when start differs from end no step of a returned
\* itinerary leaves from the stop at which it arrives.
C23_NoZeroLengthRide ==
  (Done /\ start # end)
    => \A k \in DOMAIN returned : \A i \in DOMAIN returned[k].steps :
         returned[k].steps[i].fromStop # returned[k].steps[i].toStop

\* The entries put on the queue by this iteration of the loop.
Enqueued == SubSeq(queue', Len(queue), Len(queue'))

\* C24: the visited set only grows; an iteration enqueues only stops that
\* were not visited, each once, and marks exactly these visited; start is
\* visited from the first entry on.  So the entries ever created are as many
\* as the visited stops, at most the number of distinct stops.
EnqueuesUnvisitedOnce ==
  /\ pc # "load" => visitedStops \subseteq visitedStops'
  /\ (pc = "load" /\ pc' = "loop")
       => (visitedStops' = {start} /\ Len(queue') = 1
           /\ queue'[1].currentStop = start)
  /\ (pc = "loop" /\ queue # <<>>)
       => /\ start \in visitedStops
          /\ Len(queue') = Len(queue) - 1 + Len(Enqueued)
          /\ \A i \in DOMAIN Enqueued :
               /\ Enqueued[i].currentStop \notin visitedStops
               /\ Enqueued[i].currentStop \in visitedStops'
               /\ \A j \in DOMAIN Enqueued :
                    i # j => Enqueued[i].currentStop # Enqueued[j].currentStop
          /\ Cardinality(visitedStops') = Cardinality(visitedStops) + Len(Enqueued)
          /\ visitedStops' \subseteq
                {start} \cup UNION {Range(allRoutes[r].stops) : r \in DOMAIN allRoutes}

C24_EnqueuedOnce == [][EnqueuesUnvisitedOnce]_vars

C24_Witness ==
  pc = "loop" /\ Len(queue) = 3 /\ Cardinality(visitedStops) = 4

\* Route ids, boarding stops and alighting stops of an itinerary.
Signature(result) ==
  [i \in DOMAIN result.steps |->
     <<result.steps[i].route.id, result.steps[i].fromStop, result.steps[i].toStop>>]

\* C25: no two itineraries of one returned list have the same sequence of
\* route ids, boarding stops and alighting stops.
C25_NoDuplicateItinerary ==
  Done => \A a, b \in DOMAIN returned :
            a # b => Signature(returned[a]) # Signature(returned[b])

\* Two itineraries over the same stops that differ in the route only.
C25_Witness ==
  Done /\ \E a, b \in DOMAIN returned :
            /\ a # b
            /\ Len(returned[a].steps) = 2
            /\ Len(returned[b].steps) = 2
            /\ \A i \in 1..2 :
                 /\ returned[a].steps[i].fromStop = returned[b].steps[i].fromStop
                 /\ returned[a].steps[i].toStop = returned[b].steps[i].toStop

\* C30: every partial path on the queue has at most MAX_TRANSFERS steps, so
\* the path that is dequeued never has more than MAX_TRANSFERS + 1 and the
\* break of line 73 is never taken.
C30_QueuedPathsShort ==
  /\ \A i \in DOMAIN queue : Len(queue[i].path) <= MAX_TRANSFERS
  /\ (pc = "loop" /\ queue # <<>>) => ~TooLong(Head(queue).path)

\* A path of MAX_TRANSFERS steps is about to be dequeued while the search
\* goes on.
C30_Witness ==
  /\ pc = "loop" /\ queue # <<>>
  /\ Len(Head(queue).path) = MAX_TRANSFERS
  /\ ~CapReached(finalResults)

\* ---------------------------------------------- extractor: further claims
\* The two candidates occupy ranges of the text that do not meet.
Apart(f, g) ==
  \/ f.index + Len(f.name) <= g.index
  \/ g.index + Len(g.name) <= f.index

\* C26: the ranges of the accepted candidates are pairwise disjoint; so when
\* both slots are set, start and end are different vocabulary entries and
\* the first occurrence of start ends at or before the index at which the
\* first occurrence of end begins.
C26_RangesDisjoint ==
  XDone =>
    /\ \A i, j \in DOMAIN foundStops :
         i # j => Apart(foundStops[i], foundStops[j])
    /\ \A i \in DOMAIN foundStops :
         foundStops[i].index = FirstAt(foundStops[i].name)
    /\ (~extracted.isNull /\ extracted.start # {} /\ extracted.end # {})
         => \A s \in extracted.start : \A e \in extracted.end :
              /\ s # e
              /\ {s, e} \subseteq Range(allStopNames)
              /\ FirstAt(s) + Len(s) <= FirstAt(e)

\* Both slots are set and an entry that occurs in the text was turned down.
C26_Witness ==
  /\ XDone /\ ~extracted.isNull
  /\ extracted.start # {} /\ extracted.end # {}
  /\ \E n \in Range(allStopNames) : Within(n, Trim(text)) /\ n \notin Accepted

\* The arrangements of the entries of a vocabulary.
Orderings(names) ==
  {v \in [DOMAIN names -> Range(names)] : Range(v) = Range(names)}

\* C27 (as claimed): for the same text, every arrangement of the same
\* vocabulary gives the same result.
C27_OrderIndependent ==
  XDone => \A v \in Orderings(allStopNames) :
             ExtractStopsFromText(text, v) = extracted

\* ------------------------------------------------- search during a refresh
\* C28 (as claimed): a search that runs while the data are refreshed works
\* on the complete set of routes from before the refresh or on the complete
\* set installed by it.
C28_OldOrNewRoutes ==
  (update.pc # "closed" /\ pc \in {"loop", "sort", "done"})
    => allRoutes \in {update.before, update.after}

\* ------------------------------------------------------- dialogue: replies
AssistantMessages == SelectSeq(messages, LAMBDA m : m.role = "assistant")

\* A send is accepted in this step.
SendAccepted == Len(UserMessages') = Len(UserMessages) + 1

\* The typing flag falls together with exactly one reply, and no send is
\* accepted while it is up.
OneReplyPerSend ==
  /\ (isTyping /\ ~isTyping')
       => Len(AssistantMessages') = Len(AssistantMessages) + 1
  /\ (isTyping = isTyping') => AssistantMessages' = AssistantMessages
  /\ SendAccepted => (~isTyping /\ isTyping' /\ Trim(input) # <<>>)
  /\ isTyping => ~SendAccepted

\* The reply to the pending send can still come: the timer has not fired
\* yet, or the callback waits for a search that is running or has returned.
\* Nothing but the callback lowers isTyping.
ReplyUnderWay ==
  \/ dpc = "timer"
  \/ dpc = "await" /\ pc \in {"load", "loop", "sort", "done"}

\* C29 (as claimed): every accepted send is in the end followed by one reply
\* of the assistant and by isTyping false again, also when the read of the
\* routes fails; while isTyping is true no send is accepted.  Stated on
\* finite runs: while isTyping is true the reply is still under way, the flag
\* falls together with exactly one reply, and no send is accepted meanwhile.
SendIsAnswered ==
  /\ isTyping' => ReplyUnderWay'
  /\ OneReplyPerSend

C29_SendAnswered == [][SendIsAnswered]_vars

====
